---- MODULE Spec2Model ----
(***************************************************************************)
(* pray-calc-ml: the solar ephemeris (solar.ts), the predictor             *)
(* (predict.ts), the fixed-angle scorer (score.ts) and the angle           *)
(* calibrator (calibrate.ts).                                              *)
(*                                                                         *)
(* The program computes in IEEE doubles.  The model computes in fixed      *)
(* point on integers, with these units:                                    *)
(*   - depression angles (options, fitted angles):  1/100 degree           *)
(*   - latitude, longitude, hour angle:             1/10000 degree         *)
(*   - clock times (predictions, observations):     1/10000 hour           *)
(*   - residuals, bias, RMS:                        1/100 minute           *)
(*   - trigonometric values and radians:            1/1000000              *)
(*   - weights:                                     whole numbers          *)
(* NaN, undefined and null are the empty set; a present value v is {v}.    *)
(***************************************************************************)
EXTENDS Integers, Sequences, FiniteSets, TLC

VARIABLES observations, options, call, result

vars == <<observations, options, call, result>>

(***************************************************************************)
(* Fixed-point arithmetic (the double operations of the runtime).          *)
(***************************************************************************)

\* x / y rounded to the nearest integer, y > 0.
RDiv(x, y) == (2 * x + y) \div (2 * y)

\* x * y / 10^6 (floor), computed in pieces that fit 32-bit integers.
FMul(x, y) ==
  (x \div 1000) * (y \div 1000)
    + (((x \div 1000) * (y % 1000) + (x % 1000) * (y \div 1000)
          + (((x % 1000) * (y % 1000)) \div 1000)) \div 1000)

\* x * 10^6 / y (floor) for 0 < y < 2 * 10^6, by long division.
FDivPos(x, y) ==
  (x \div y) * 1000000
    + (((x % y) * 1000) \div y) * 1000
    + (((((x % y) * 1000) % y) * 1000) \div y)

Abs(x) == IF x < 0 THEN -x ELSE x

Sign(x) == IF x < 0 THEN -1 ELSE 1

FDiv(x, y) == FDivPos(Sign(y) * x, Abs(y))

\* Math.PI in micro-radians.
PI == 3141593

\* The Taylor series of the sine to x^11 in Horner form, for 0 <= x <= PI/2;
\* x2 is x * x.
SinSeries(x, x2) ==
  FMul(x, 1000000 - (FMul(x2,
          1000000 - (FMul(x2,
            1000000 - (FMul(x2,
              1000000 - (FMul(x2,
                1000000 - (x2 \div 110)) \div 72)) \div 42)) \div 20)) \div 6))

\* The sine on [-PI/2, PI/2].
SinReduced(t) == Sign(t) * SinSeries(Abs(t), FMul(Abs(t), Abs(t)))

\* r in (-PI, PI] brought into [-PI/2, PI/2] by the symmetry about PI/2.
Fold(r) ==
  IF r > PI \div 2 THEN PI - r
  ELSE IF r < -(PI \div 2) THEN -PI - r ELSE r

\* x brought into (-PI, PI].
Wrap(x) ==
  IF x % (2 * PI) > PI THEN (x % (2 * PI)) - 2 * PI ELSE x % (2 * PI)

\* v kept within [-1, 1].
Clamp(v) ==
  IF v > 1000000 THEN 1000000 ELSE IF v < -1000000 THEN -1000000 ELSE v

\* Math.sin of x micro-radians, in millionths.
Sin(x) == Clamp(SinReduced(Fold(Wrap(x))))

\* Math.cos.
Cos(x) == Sin(x + PI \div 2)

\* Math.sqrt of v millionths (0 <= v <= 10^6), in millionths: Newton's
\* iteration from above, r := (r + v / r) / 2, until it stops decreasing.
RECURSIVE SqrtIter(_, _, _)
SqrtIter(v, r, k) ==
  IF k = 0 \/ (r + FDivPos(v, r)) \div 2 >= r THEN r
  ELSE SqrtIter(v, (r + FDivPos(v, r)) \div 2, k - 1)

Sqrt(v) == IF v <= 0 THEN 0 ELSE SqrtIter(v, 1000000, 40)

\* The first terms of the series of the arc sine; v2 is v * v.
AsinSeries(v, v2) == v + FMul(v, v2 \div 6 + FMul(v2, (3 * v2) \div 40))

\* k steps of Newton's iteration on sin y = v.
RECURSIVE AsinNewton(_, _, _)
AsinNewton(v, y, k) ==
  IF k = 0 THEN y
  ELSE AsinNewton(v, y + FDiv(v - Sin(y), Cos(y)), k - 1)

\* Math.asin for |v| <= 0.7072.
AsinSmall(v) == AsinNewton(v, AsinSeries(v, FMul(v, v)), 2)

\* asin v from y = asin(sqrt((1 - |v|) / 2)) when |v| > 0.7071, and from
\* y = asin v otherwise.
AsinFrom(v, y) ==
  IF Abs(v) <= 707107 THEN y
  ELSE IF v > 0 THEN PI \div 2 - 2 * y ELSE 2 * y - PI \div 2

\* Math.asin on [-1, 1].
Asin(v) ==
  AsinFrom(v, AsinSmall(IF Abs(v) <= 707107 THEN v
                        ELSE FMul(Sqrt(1000000 - Abs(v)), 707107)))

\* Math.acos on [-1, 1], in micro-radians, from 0 to PI.
Acos(c) == PI \div 2 - Asin(c)

\* x * Math.PI / 180: x in millionths of a degree, result in micro-radians.
Rad(x) == FMul(x, 17453) + RDiv((x \div 1000) * 293, 1000000)

(***************************************************************************)
(* solar.ts                                                                *)
(***************************************************************************)

\* Mutation of jdn: without the century terms of the Gregorian leap rule.
jdnWithoutCenturyRule(date) ==
  LET y  == date[1]
      m  == date[2]
      d  == date[3]
      a  == (14 - m) \div 12
      yr == y + 4800 - a
      mo == m + 12 * a - 3
  IN  d + ((153 * mo + 2) \div 5) + 365 * yr + (yr \div 4) - 32083

\* Julian Day Number of the calendar date <<y, m, d>> (Math.floor is \div).
jdn(date) ==
  LET y  == date[1]
      m  == date[2]
      d  == date[3]
      a  == (14 - m) \div 12
      yr == y + 4800 - a
      mo == m + 12 * a - 3
  IN  d + ((153 * mo + 2) \div 5) + 365 * yr + (yr \div 4) - (yr \div 100)
        + (yr \div 400) - 32045

\* T = (jd - 2451545) / 36525 in millionths of a century, for n days.
Centuries(n) == n * 27 + RDiv(n * 37851, 100000)

\* The mean longitude L0 and the mean anomaly M, in millionths of a degree.
\* They need T to nine digits and are advanced per day (36000.76983 / 36525
\* and 35999.05029 / 36525 degrees); TT is T * T.
MeanLongitude(n, TT) ==
  (280466460 + ((n * 985) % 360000) * 1000 + n * 647
     + RDiv(n * 36, 100) + RDiv(TT * 3032, 10000000)) % 360000000

MeanAnomaly(n, TT) ==
  (357529110 + ((n * 985) % 360000) * 1000 + n * 600
     + RDiv(n * 28, 100) - RDiv(TT * 1537, 10000000)) % 360000000

\* The equation of centre C, from T and the sines of Mrad, 2 Mrad, 3 Mrad.
Centre(T, sinM, sin2M, sin3M) ==
  FMul(sinM, 1914602 - FMul(T, 4817 + FMul(T, 14)))
    + FMul(sin2M, 19993 - FMul(T, 101))
    + FMul(sin3M, 289)

\* eqtMin from y and the sines and cosines in it;
\* (4 / PI) * (180 / PI) = 72.951340.
EqtMin(y, sin2L0, cos2L0, sin4L0, sinM, sin2M) ==
  FMul(72951340,
       FMul(y, sin2L0)
       - 2 * sinM
       + 4 * FMul(FMul(sinM, y), cos2L0)
       - (FMul(FMul(y, y), sin4L0) \div 2)
       - RDiv(5 * sin2M, 4))

\* tan ** 2.
Squared(tan) == FMul(tan, tan)

\* declRad (micro-radians) and eqtHours (millionths of an hour) from the
\* obliquity, the sun's longitude lambda, L0 and the sines of the anomaly.
solarAt(epsRad, lambdaRad, L0rad, sinM, sin2M) ==
  [declRad  |-> Asin(FMul(Sin(epsRad), Sin(lambdaRad))),
   eqtHours |-> RDiv(EqtMin(Squared(FDiv(Sin(epsRad \div 2),
                                         Cos(epsRad \div 2))),
                            Sin(2 * L0rad), Cos(2 * L0rad), Sin(4 * L0rad),
                            sinM, sin2M),
                     60)]

\* The lines of solar after L0 and M: omegaRad is omega in radians.
\* 0.00059 / 3600 and 0.001813 / 3600 degrees are below a millionth.
solarFrom(T, L0, sinM, sin2M, sin3M, omegaRad) ==
  solarAt(Rad(23439291 - FMul(T, 13004) + FMul(2560, Cos(omegaRad))),
          Rad(L0 + Centre(T, sinM, sin2M, sin3M) - 5690
                - FMul(4780, Sin(omegaRad))),
          Rad(L0), sinM, sin2M)

\* The lines of solar after T: n is jd - 2451545 and TT is T * T.
solarOf(n, T, TT, Mrad) ==
  solarFrom(T, MeanLongitude(n, TT), Sin(Mrad), Sin(2 * Mrad), Sin(3 * Mrad),
            Rad((125040000 - FMul(T, 1934136000)) % 360000000))

\* Jean Meeus solar declination and equation of time for a Julian Day Number.
solarMeeus(jd) ==
  LET n  == jd - 2451545
      T  == Centuries(n)
      TT == FMul(T, T)
  IN  solarOf(n, T, TT, Rad(MeanAnomaly(n, TT)))

\* The calendar dates of the model's observations.
Dates == {<<2024, 1, 15>>, <<2024, 7, 15>>, <<2024, 6, 21>>}

\* solar(jd) for the Julian Day Numbers of the model, evaluated once.
SolarTable == [jd \in {jdn(d) : d \in Dates} |-> solarMeeus(jd)]

solar(jd) == SolarTable[jd]

NaN == {}

\* Mutation of crossingAt: the hour angle is added for the rise and
\* subtracted for the set.
crossingAtReversed(cosH, H, noon) ==
  IF cosH < -1000000 \/ cosH > 1000000 THEN <<NaN, NaN>>
  ELSE <<{noon + RDiv(H, 15)}, {noon - RDiv(H, 15)}>>

\* Mutation of crossingAt: only cosH > 1 is taken for a missing crossing.
crossingAtAboveOnly(cosH, H, noon) ==
  IF cosH > 1000000 THEN <<NaN, NaN>>
  ELSE <<{noon - RDiv(H, 15)}, {noon + RDiv(H, 15)}>>

\* The end of horizonCrossing, from cosH, the hour angle H and the solar noon.
crossingAt(cosH, H, noon) ==
  IF cosH < -1000000 \/ cosH > 1000000 THEN <<NaN, NaN>>
  ELSE <<{noon - RDiv(H, 15)}, {noon + RDiv(H, 15)}>>

\* cosH and what follows it in horizonCrossing.
crossingFrom(cosH, noon) ==
  crossingAt(cosH, FMul(Acos(cosH), 572958), noon)

\* horizonCrossing after the call of solar, which gave sd.
crossing(sd, lat, lng, tz, altDeg) ==
  crossingFrom(FDiv(Sin(Rad(altDeg * 10000))
                      - FMul(Sin(Rad(lat * 100)), Sin(sd.declRad)),
                    FMul(Cos(Rad(lat * 100)), Cos(sd.declRad))),
               120000 - RDiv(sd.eqtHours, 100) - RDiv(lng, 15) + tz * 10000)

\* The local times [rise, set] at which the sun reaches altitude altDeg
\* (1/100 degree, negative below the horizon), or NaN for both.
horizonCrossing(jd, lat, lng, tz, altDeg) ==
  crossing(solar(jd), lat, lng, tz, altDeg)

(***************************************************************************)
(* The inputs of the model.                                                *)
(***************************************************************************)

\* The longest observation list.
MaxObs == 3

\* The depression angles (1/100 degree) at which the ephemeris is tabulated:
\* every angle a call of the model can ask for.
AngleLo == 9 * 100
AngleHi == 22 * 100

\* date, latitude, longitude and UTC offset of the observations:
\* New York in January and in July, London and Tromso at the June solstice.
NYJan  == [date |-> <<2024, 1, 15>>, lat |-> 407128, lng |-> -740060, tz |-> -4]
NYJul  == [date |-> <<2024, 7, 15>>, lat |-> 407128, lng |-> -740060, tz |-> -4]
London == [date |-> <<2024, 6, 21>>, lat |-> 515074, lng |-> -1278, tz |-> 1]
Tromso == [date |-> <<2024, 6, 21>>, lat |-> 690000, lng |-> 180000, tz |-> 1]

Sites == {NYJan, NYJul, London, Tromso}

\* horizonCrossing for every site and altitude of the model, evaluated once.
Ephemeris ==
  [s \in Sites |->
     [altDeg \in (-AngleHi)..(-AngleLo) |->
        horizonCrossing(jdn(s.date), s.lat, s.lng, s.tz, altDeg)]]

(***************************************************************************)
(* predict.ts                                                              *)
(***************************************************************************)

\* Mutation of predictIsha: the first element of the crossing, the rise.
predictIshaFromRise(date, lat, lng, tz, ishaAngle) ==
  LET altDeg == -(ishaAngle)
  IN  Ephemeris[[date |-> date, lat |-> lat, lng |-> lng, tz |-> tz]][altDeg][1]

predictFajr(date, lat, lng, tz, fajrAngle) ==
  LET altDeg == -(fajrAngle)
  IN  Ephemeris[[date |-> date, lat |-> lat, lng |-> lng, tz |-> tz]][altDeg][1]

predictIsha(date, lat, lng, tz, ishaAngle) ==
  LET altDeg == -(ishaAngle)
  IN  Ephemeris[[date |-> date, lat |-> lat, lng |-> lng, tz |-> tz]][altDeg][2]

(***************************************************************************)
(* Optional values and doubles that only the calibrator and scorer use.    *)
(***************************************************************************)

undefined == {}
null == {}

\* The value of a present optional.
Val(opt) == CHOOSE v \in opt : TRUE

\* `x = d` in a destructuring pattern and `x ?? d`: d when x is undefined.
OrDefault(opt, d) == IF opt = undefined THEN d ELSE Val(opt)

isFinite(pred) == pred # NaN

\* Math.sqrt of a whole number (floor): Newton's iteration from above.
RECURSIVE ISqrtIter(_, _, _)
ISqrtIter(n, r, k) ==
  LET m == (r + n \div r) \div 2
  IN  IF k = 0 \/ m >= r THEN r ELSE ISqrtIter(n, m, k - 1)

ISqrt(n) == IF n <= 0 THEN 0 ELSE ISqrtIter(n, 46341, 40)

\* Mutation of Minutes: the residual with its sign reversed.
MinutesReversed(pred, observed) == RDiv((observed - pred) * 60, 100)

\* (pred - observed) * 60: hours (1/10000) to minutes (1/100).
Minutes(pred, observed) == RDiv((pred - observed) * 60, 100)

(***************************************************************************)
(* calibrate.ts                                                            *)
(***************************************************************************)

\* Mutation of lossTerm: the weight is left out.
lossTermUnweighted(pred, observed, w) ==
  IF ~isFinite(pred) THEN 0
  ELSE Minutes(Val(pred), observed) * Minutes(Val(pred), observed)

\* Mutation of lossTerm: the weight counts on top of a weight of 1.
lossTermExtraWeight(pred, observed, w) ==
  IF ~isFinite(pred) THEN 0
  ELSE (w + 1) * Minutes(Val(pred), observed) * Minutes(Val(pred), observed)

\* Mutation of lossTerm: a non-finite prediction is charged one squared
\* minute instead of being skipped.
lossTermPenalised(pred, observed, w) ==
  IF ~isFinite(pred) THEN w * 10000
  ELSE w * Minutes(Val(pred), observed) * Minutes(Val(pred), observed)

\* What one observation adds to wss in fajrLoss and ishaLoss: nothing when
\* the prediction is not finite, w * diff * diff otherwise.
lossTerm(pred, observed, w) ==
  IF ~isFinite(pred) THEN 0
  ELSE w * Minutes(Val(pred), observed) * Minutes(Val(pred), observed)

\* The weighted sum of squares of the dawn observations fajrObs at an angle,
\* from observation i on.
RECURSIVE fajrLossFrom(_, _, _, _)
fajrLossFrom(fajrObs, angle, i, wss) ==
  IF i > Len(fajrObs) THEN wss
  ELSE fajrLossFrom(fajrObs, angle, i + 1,
         wss + lossTerm(predictFajr(fajrObs[i].date, fajrObs[i].lat,
                                    fajrObs[i].lng, fajrObs[i].tz, angle),
                        Val(fajrObs[i].fajr),
                        OrDefault(fajrObs[i].weight, 1)))

fajrLoss(fajrObs, angle) == fajrLossFrom(fajrObs, angle, 1, 0)

\* The same for the dusk observations ishaObs.
RECURSIVE ishaLossFrom(_, _, _, _)
ishaLossFrom(ishaObs, angle, i, wss) ==
  IF i > Len(ishaObs) THEN wss
  ELSE ishaLossFrom(ishaObs, angle, i + 1,
         wss + lossTerm(predictIsha(ishaObs[i].date, ishaObs[i].lat,
                                    ishaObs[i].lng, ishaObs[i].tz, angle),
                        Val(ishaObs[i].isha),
                        OrDefault(ishaObs[i].weight, 1)))

ishaLoss(ishaObs, angle) == ishaLossFrom(ishaObs, angle, 1, 0)

\* The function f that goldenSection minimizes: fajrLoss or ishaLoss of obs.
Loss(obs, field, angle) ==
  IF field = "fajr" THEN fajrLoss(obs, angle) ELSE ishaLoss(obs, angle)

\* (Math.sqrt(5) - 1) / 2 in millionths.
phi == 618034

\* phi * (b - a), rounded to the angle grid; in pieces where the product
\* does not fit 32 bits.
PhiTimes(w) == IF w > 1500 THEN FMul(phi, w) ELSE RDiv(phi * w, 1000000)

\* The variables of goldenSection, with f1 and f2 the values of f at x1, x2.
gsVars(a, b, x1, x2, f1, f2, i) ==
  [a |-> a, b |-> b, x1 |-> x1, x2 |-> x2, f1 |-> f1, f2 |-> f2, i |-> i]

\* The variables before the first iteration.
gsStart(obs, field, a, b) ==
  gsVars(a, b, b - PhiTimes(b - a), a + PhiTimes(b - a),
         Loss(obs, field, b - PhiTimes(b - a)),
         Loss(obs, field, a + PhiTimes(b - a)), 0)

\* The point at which an iteration evaluates f: the new x1 when f1 < f2, the
\* new x2 otherwise.
gsProbe(g) ==
  IF g.f1 < g.f2 THEN g.x2 - PhiTimes(g.x2 - g.a)
  ELSE g.x1 + PhiTimes(g.b - g.x1)

\* Mutation of gsNext: on f1 = f2 the upper part is discarded.
gsNextTieKeepsLower(g, fx) ==
  IF g.f1 <= g.f2
  THEN gsVars(g.a, g.x2, gsProbe(g), g.x1, fx, g.f1, g.i + 1)
  ELSE gsVars(g.x1, g.b, g.x2, gsProbe(g), g.f2, fx, g.i + 1)

\* Mutation of gsNext: when f1 < f2 the bracket is cut at x1.
gsNextCutAtX1(g, fx) ==
  IF g.f1 < g.f2
  THEN gsVars(g.a, g.x1, gsProbe(g), g.x1, fx, g.f1, g.i + 1)
  ELSE gsVars(g.x1, g.b, g.x2, gsProbe(g), g.f2, fx, g.i + 1)

\* One iteration of the loop body; fx is f at gsProbe(g).
gsNext(g, fx) ==
  IF g.f1 < g.f2
  THEN gsVars(g.a, g.x2, gsProbe(g), g.x1, fx, g.f1, g.i + 1)
  ELSE gsVars(g.x1, g.b, g.x2, gsProbe(g), g.f2, fx, g.i + 1)

gsStep(obs, field, g) == gsNext(g, Loss(obs, field, gsProbe(g)))

\* Mutation of gsContinues: the loop goes on at a width of exactly tol.
gsContinuesAtTolerance(g, tol, maxIter) == g.i < maxIter /\ g.b - g.a >= tol

\* for (i = 0; i < maxIter && b - a > tol; i++)
gsContinues(g, tol, maxIter) == g.i < maxIter /\ g.b - g.a > tol

\* The variables after at most n further iterations from g.  The n
\* iterations are run as two halves, which keeps the nesting of the
\* evaluation at log2 n when the loop runs to maxIter.
RECURSIVE gsRun(_, _, _, _, _, _)
gsRun(obs, field, g, tol, maxIter, n) ==
  IF n = 0 \/ ~gsContinues(g, tol, maxIter) THEN g
  ELSE IF n = 1 THEN gsStep(obs, field, g)
  ELSE gsRun(obs, field, gsRun(obs, field, g, tol, maxIter, n \div 2),
             tol, maxIter, n - n \div 2)

\* The loop: from i = 0 there are at most maxIter iterations.
gsLoop(obs, field, g, tol, maxIter) ==
  gsRun(obs, field, g, tol, maxIter, maxIter)

\* return (a + b) / 2
gsReturn(g) == (g.a + g.b) \div 2

\* Golden-section search for the minimum of the loss on [a, b].
goldenSection(obs, field, a, b, tol, maxIter) ==
  gsReturn(gsLoop(obs, field, gsStart(obs, field, a, b), tol, maxIter))

\* Mutation of Filter: an observation of weight 0 is left out of the
\* subset.
FilterWeighted(obs, field) ==
  SelectSeq(obs, LAMBDA o : o[field] # undefined /\ OrDefault(o.weight, 1) > 0)

\* observations.filter(o => o.fajr !== undefined), and the same for isha.
Filter(obs, field) == SelectSeq(obs, LAMBDA o : o[field] # undefined)

\* fajrMin or ishaMin of one observation: null unless the observation has
\* the time and the prediction is finite.
residualOf(time, pred) ==
  IF time # undefined /\ isFinite(pred)
  THEN {Minutes(Val(pred), Val(time))} ELSE null

\* What a residual r adds to a total when each finite residual adds x.
IfFinite(r, x) == IF r # null THEN x ELSE 0

\* r * r for a finite residual.
Square(r) == IF r # null THEN Val(r) * Val(r) ELSE 0

\* Mutation of calAdd: every observation adds its weight to totalWeight for
\* both prayers, with or without a residual.
calAddEveryWeight(t, w, fajrMin, ishaMin) ==
  [totalWeightedSS |-> t.totalWeightedSS + w * Square(fajrMin)
                         + w * Square(ishaMin),
   totalWeight     |-> t.totalWeight + w + w,
   residuals       |-> Append(t.residuals,
                              [fajrMin |-> fajrMin, ishaMin |-> ishaMin])]

\* The totals t of calibrateAngles after an observation of weight w with
\* residuals fajrMin and ishaMin.
calAdd(t, w, fajrMin, ishaMin) ==
  [totalWeightedSS |-> t.totalWeightedSS + w * Square(fajrMin)
                         + w * Square(ishaMin),
   totalWeight     |-> t.totalWeight + IfFinite(fajrMin, w)
                         + IfFinite(ishaMin, w),
   residuals       |-> Append(t.residuals,
                              [fajrMin |-> fajrMin, ishaMin |-> ishaMin])]

\* Mutation of calMap: the totals ignore the observation's weight.
calMapUnweighted(o, fajrAngle, ishaAngle, t) ==
  calAdd(t, 1,
         residualOf(o.fajr, predictFajr(o.date, o.lat, o.lng, o.tz, fajrAngle)),
         residualOf(o.isha, predictIsha(o.date, o.lat, o.lng, o.tz, ishaAngle)))

\* The callback of observations.map in calibrateAngles: the totals after
\* observation o, with its residuals appended to t.residuals.
calMap(o, fajrAngle, ishaAngle, t) ==
  calAdd(t, OrDefault(o.weight, 1),
         residualOf(o.fajr, predictFajr(o.date, o.lat, o.lng, o.tz, fajrAngle)),
         residualOf(o.isha, predictIsha(o.date, o.lat, o.lng, o.tz, ishaAngle)))

\* observations.map from observation i on, with the totals t so far.
RECURSIVE calPass(_, _, _, _, _)
calPass(obs, fajrAngle, ishaAngle, i, t) ==
  IF i > Len(obs) THEN t
  ELSE calPass(obs, fajrAngle, ishaAngle, i + 1,
               calMap(obs[i], fajrAngle, ishaAngle, t))

\* The insufficient-data error.
Threw == [threw |-> TRUE]

\* Mutation of insufficientData: one small subset is enough to throw.
insufficientDataEither(fajrObs, ishaObs) ==
  Len(fajrObs) < 2 \/ Len(ishaObs) < 2

\* if (fajrObs.length < 2 && ishaObs.length < 2) throw
insufficientData(fajrObs, ishaObs) == Len(fajrObs) < 2 /\ Len(ishaObs) < 2

\* Mutation of fitFajr: the search runs on the default bracket, whatever
\* fajrMin and fajrMax are.
fitFajrDefaultBracket(fajrObs, fajrMin, fajrMax, tol, maxIter, fajrAngle0) ==
  IF Len(fajrObs) >= 2
  THEN goldenSection(fajrObs, "fajr", 1000, 2200, tol, maxIter)
  ELSE fajrAngle0

\* Mutation of fitFajr: the search starts from the bracket
\* [fajrAngle0, fajrMax].
fitFajrFromGuess(fajrObs, fajrMin, fajrMax, tol, maxIter, fajrAngle0) ==
  IF Len(fajrObs) >= 2
  THEN goldenSection(fajrObs, "fajr", fajrAngle0, fajrMax, tol, maxIter)
  ELSE fajrAngle0

\* fajrObs.length >= 2 ? goldenSection(fajrLoss, ...) : fajrAngle0
fitFajr(fajrObs, fajrMin, fajrMax, tol, maxIter, fajrAngle0) ==
  IF Len(fajrObs) >= 2
  THEN goldenSection(fajrObs, "fajr", fajrMin, fajrMax, tol, maxIter)
  ELSE fajrAngle0

\* Mutation of fitIsha: the initial guess is clamped to [ishaMin, ishaMax].
fitIshaClamped(ishaObs, ishaMin, ishaMax, tol, maxIter, ishaAngle0) ==
  IF Len(ishaObs) >= 2
  THEN goldenSection(ishaObs, "isha", ishaMin, ishaMax, tol, maxIter)
  ELSE IF ishaAngle0 < ishaMin THEN ishaMin
       ELSE IF ishaAngle0 > ishaMax THEN ishaMax ELSE ishaAngle0

\* ishaObs.length >= 2 ? goldenSection(ishaLoss, ...) : ishaAngle0
fitIsha(ishaObs, ishaMin, ishaMax, tol, maxIter, ishaAngle0) ==
  IF Len(ishaObs) >= 2
  THEN goldenSection(ishaObs, "isha", ishaMin, ishaMax, tol, maxIter)
  ELSE ishaAngle0

\* totalWeight > 0 ? Math.sqrt(totalWeightedSS / totalWeight) : 0
calRms(totalWeightedSS, totalWeight) ==
  IF totalWeight > 0 THEN ISqrt(RDiv(totalWeightedSS, totalWeight)) ELSE 0

\* Mutation of observationCountOf: the size of the larger subset.
observationCountByLonger(fajrObs, ishaObs) ==
  (IF Len(fajrObs) >= Len(ishaObs) THEN Len(fajrObs) ELSE Len(ishaObs)) * 10

\* (fajrObs.length + ishaObs.length) / 2, in tenths.
observationCountOf(fajrObs, ishaObs) ==
  ((Len(fajrObs) + Len(ishaObs)) * 10) \div 2

\* The return value, from the two angles and the totals t.
calReturn(fajrObs, ishaObs, fajrAngle, ishaAngle, t) ==
  [threw |-> FALSE,
   angles |-> [fajrAngle |-> fajrAngle, ishaAngle |-> ishaAngle],
   rmsMinutes |-> calRms(t.totalWeightedSS, t.totalWeight),
   observationCount |-> observationCountOf(fajrObs, ishaObs),
   residuals |-> t.residuals]

\* calibrateAngles once the two angles are known: the residual pass over
\* every observation, and the return value.
calFinish(obs, fajrObs, ishaObs, fajrAngle, ishaAngle) ==
  calReturn(fajrObs, ishaObs, fajrAngle, ishaAngle,
            calPass(obs, fajrAngle, ishaAngle, 1,
                    [totalWeightedSS |-> 0, totalWeight |-> 0,
                     residuals |-> <<>>]))

\* Mutation of maxIterOf: the default is 100.
maxIterOfHundred(opts) == OrDefault(opts.maxIter, 100)

\* maxIter = 200 of the destructuring of options.
maxIterOf(opts) == OrDefault(opts.maxIter, 200)

\* tol = 1e-5 of the destructuring of options.  tol is in 1/100 degree: the
\* default is below the angle grid and is the grid's unit, 1.
tolOf(opts) == OrDefault(opts.tol, 1)

\* Mutation of calFit: the dawn search runs on the dusk bounds.
calFitSharedBounds(obs, opts, fajrObs, ishaObs) ==
  IF insufficientData(fajrObs, ishaObs) THEN Threw
  ELSE calFinish(obs, fajrObs, ishaObs,
         fitFajr(fajrObs, OrDefault(opts.ishaMin, 1000),
                 OrDefault(opts.ishaMax, 2200), tolOf(opts),
                 maxIterOf(opts), OrDefault(opts.fajrAngle0, 1500)),
         fitIsha(ishaObs, OrDefault(opts.ishaMin, 1000),
                 OrDefault(opts.ishaMax, 2200), tolOf(opts),
                 maxIterOf(opts), OrDefault(opts.ishaAngle0, 1500)))

\* Mutation of calFit: with the initial guesses 18 and the bounds [12, 20]
\* for the omitted options.
calFitOtherDefaults(obs, opts, fajrObs, ishaObs) ==
  IF insufficientData(fajrObs, ishaObs) THEN Threw
  ELSE calFinish(obs, fajrObs, ishaObs,
         fitFajr(fajrObs, OrDefault(opts.fajrMin, 1200),
                 OrDefault(opts.fajrMax, 2000), tolOf(opts),
                 maxIterOf(opts), OrDefault(opts.fajrAngle0, 1800)),
         fitIsha(ishaObs, OrDefault(opts.ishaMin, 1200),
                 OrDefault(opts.ishaMax, 2000), tolOf(opts),
                 maxIterOf(opts), OrDefault(opts.ishaAngle0, 1800)))

\* calibrateAngles after the two filters.
calFit(obs, opts, fajrObs, ishaObs) ==
  IF insufficientData(fajrObs, ishaObs) THEN Threw
  ELSE calFinish(obs, fajrObs, ishaObs,
         fitFajr(fajrObs, OrDefault(opts.fajrMin, 1000),
                 OrDefault(opts.fajrMax, 2200), tolOf(opts),
                 maxIterOf(opts), OrDefault(opts.fajrAngle0, 1500)),
         fitIsha(ishaObs, OrDefault(opts.ishaMin, 1000),
                 OrDefault(opts.ishaMax, 2200), tolOf(opts),
                 maxIterOf(opts), OrDefault(opts.ishaAngle0, 1500)))

calibrateAngles(obs, opts) ==
  calFit(obs, opts, Filter(obs, "fajr"), Filter(obs, "isha"))

(***************************************************************************)
(* score.ts                                                                *)
(***************************************************************************)

\* The finite residual r as a number, 0 for null.
OrZero(r) == IF r # null THEN Val(r) ELSE 0

\* Mutation of scoreAdd: an observation adds its weight to the total once,
\* however many finite residuals it has.
scoreAddWeightOnce(t, w, fajrMin, ishaMin) ==
  [totalWeightedSS  |-> t.totalWeightedSS + w * Square(fajrMin)
                          + w * Square(ishaMin),
   totalWeight      |-> t.totalWeight
                          + (IF fajrMin # null \/ ishaMin # null THEN w ELSE 0),
   fajrWeightedBias |-> t.fajrWeightedBias + w * OrZero(fajrMin),
   fajrWeightCount  |-> t.fajrWeightCount + IfFinite(fajrMin, w),
   ishaWeightedBias |-> t.ishaWeightedBias + w * OrZero(ishaMin),
   ishaWeightCount  |-> t.ishaWeightCount + IfFinite(ishaMin, w),
   residuals        |-> Append(t.residuals,
                               [fajrMin |-> fajrMin, ishaMin |-> ishaMin])]

\* The totals t of scoreAngles after an observation of weight w with
\* residuals fajrMin and ishaMin.
scoreAdd(t, w, fajrMin, ishaMin) ==
  [totalWeightedSS  |-> t.totalWeightedSS + w * Square(fajrMin)
                          + w * Square(ishaMin),
   totalWeight      |-> t.totalWeight + IfFinite(fajrMin, w)
                          + IfFinite(ishaMin, w),
   fajrWeightedBias |-> t.fajrWeightedBias + w * OrZero(fajrMin),
   fajrWeightCount  |-> t.fajrWeightCount + IfFinite(fajrMin, w),
   ishaWeightedBias |-> t.ishaWeightedBias + w * OrZero(ishaMin),
   ishaWeightCount  |-> t.ishaWeightCount + IfFinite(ishaMin, w),
   residuals        |-> Append(t.residuals,
                               [fajrMin |-> fajrMin, ishaMin |-> ishaMin])]

\* The callback of observations.map in scoreAngles.
scoreMap(o, fajrAngle, ishaAngle, t) ==
  scoreAdd(t, OrDefault(o.weight, 1),
           residualOf(o.fajr, predictFajr(o.date, o.lat, o.lng, o.tz, fajrAngle)),
           residualOf(o.isha, predictIsha(o.date, o.lat, o.lng, o.tz, ishaAngle)))

\* observations.map from observation i on, with the totals t so far.
RECURSIVE scorePass(_, _, _, _, _)
scorePass(obs, fajrAngle, ishaAngle, i, t) ==
  IF i > Len(obs) THEN t
  ELSE scorePass(obs, fajrAngle, ishaAngle, i + 1,
                 scoreMap(obs[i], fajrAngle, ishaAngle, t))

\* totalWeight > 0 ? Math.sqrt(totalWeightedSS / totalWeight) : 0
scoreRms(totalWeightedSS, totalWeight) ==
  IF totalWeight > 0 THEN ISqrt(RDiv(totalWeightedSS, totalWeight)) ELSE 0

\* Mutation of scoreBias: the magnitude of the weighted mean, without sign.
scoreBiasMagnitude(weightedBias, weightCount) ==
  IF weightCount > 0 THEN Abs(RDiv(weightedBias, weightCount)) ELSE 0

\* fajrWeightCount > 0 ? fajrWeightedBias / fajrWeightCount : 0, and the
\* same for isha.
scoreBias(weightedBias, weightCount) ==
  IF weightCount > 0 THEN RDiv(weightedBias, weightCount) ELSE 0

\* The return value of scoreAngles, from the totals.
scoreReturn(t) ==
  [rmsMinutes |-> scoreRms(t.totalWeightedSS, t.totalWeight),
   fajrBiasMinutes |-> scoreBias(t.fajrWeightedBias, t.fajrWeightCount),
   ishaBiasMinutes |-> scoreBias(t.ishaWeightedBias, t.ishaWeightCount),
   residuals |-> t.residuals]

scoreAngles(obs, fajrAngle, ishaAngle) ==
  scoreReturn(scorePass(obs, fajrAngle, ishaAngle, 1,
                        [totalWeightedSS |-> 0, totalWeight |-> 0,
                         fajrWeightedBias |-> 0, fajrWeightCount |-> 0,
                         ishaWeightedBias |-> 0, ishaWeightCount |-> 0,
                         residuals |-> <<>>]))

(***************************************************************************)
(* The callers: observation lists, options and fixed angles they pass.     *)
(***************************************************************************)

\* An observation at a site with the given optional fields.
Obs(s, fajr, isha, weight) ==
  [date |-> s.date, lat |-> s.lat, lng |-> s.lng, tz |-> s.tz,
   fajr |-> fajr, isha |-> isha, weight |-> weight]

\* The times the predictor gives at a site for an angle.
FajrAt(s, angle) == predictFajr(s.date, s.lat, s.lng, s.tz, angle)
IshaAt(s, angle) == predictIsha(s.date, s.lat, s.lng, s.tz, angle)

\* A time moved by d (1/10000 hour): an observation with noise.
Shift(t, d) == {Val(t) + d}

ObsPool ==
  { Obs(NYJan, FajrAt(NYJan, 1500), IshaAt(NYJan, 1500), undefined),
    Obs(NYJul, FajrAt(NYJul, 1500), IshaAt(NYJul, 1200), {2}),
    Obs(NYJul, FajrAt(NYJul, 1200), undefined, undefined),
    Obs(NYJan, undefined, Shift(IshaAt(NYJan, 1500), -200), {0}),
    Obs(London, FajrAt(London, 1200), IshaAt(London, 1200), undefined),
    Obs(Tromso, {20000}, {230000}, undefined),
    Obs(NYJan, undefined, undefined, undefined) }

RECURSIVE ListsOf(_)
ListsOf(n) ==
  IF n = 0 THEN {<<>>}
  ELSE ListsOf(n - 1)
         \cup {Append(l, o) : l \in {m \in ListsOf(n - 1) : Len(m) = n - 1},
                              o \in ObsPool}

NoOptions ==
  [fajrAngle0 |-> undefined, ishaAngle0 |-> undefined,
   fajrMin |-> undefined, fajrMax |-> undefined,
   ishaMin |-> undefined, ishaMax |-> undefined,
   maxIter |-> undefined, tol |-> undefined]

OptionsPool ==
  { NoOptions,
    [NoOptions EXCEPT !.fajrAngle0 = {1800}, !.ishaAngle0 = {1200},
                      !.tol = {5}, !.maxIter = {50}],
    [NoOptions EXCEPT !.fajrMin = {1600}, !.fajrMax = {2000},
                      !.ishaMin = {1000}, !.ishaMax = {1400},
                      !.maxIter = {3}] }

ScoredAngles == {<<1500, 1500>>, <<1200, 1800>>}

(***************************************************************************)
(* The state machine: a caller holds an observation list and an options    *)
(* record and calls calibrateAngles and scoreAngles on them, in any order. *)
(***************************************************************************)

Init ==
  /\ observations \in ListsOf(MaxObs)
  /\ options \in OptionsPool
  /\ call = [op |-> "none"]
  /\ result = [op |-> "none"]

\* Mutation of Calibrate: a calibration that follows a scoring takes the
\* scored angles as its initial guesses.
CalibrateFromLastScore ==
  /\ call' = [op |-> "calibrateAngles"]
  /\ result' =
       IF call.op = "scoreAngles"
       THEN calibrateAngles(observations,
              [options EXCEPT !.fajrAngle0 = {call.fajrAngle},
                              !.ishaAngle0 = {call.ishaAngle}])
       ELSE calibrateAngles(observations, options)
  /\ UNCHANGED <<observations, options>>

\* Mutation of Score: the default weight is written into the observations.
ScoreFillingWeights ==
  \E angles \in ScoredAngles :
    /\ call' = [op |-> "scoreAngles", fajrAngle |-> angles[1],
                ishaAngle |-> angles[2]]
    /\ result' = scoreAngles(observations, angles[1], angles[2])
    /\ observations' =
         [i \in 1..Len(observations) |->
            [observations[i] EXCEPT !.weight = {OrDefault(@, 1)}]]
    /\ UNCHANGED options

Calibrate ==
  /\ call' = [op |-> "calibrateAngles"]
  /\ result' = calibrateAngles(observations, options)
  /\ UNCHANGED <<observations, options>>

Score ==
  \E angles \in ScoredAngles :
    /\ call' = [op |-> "scoreAngles", fajrAngle |-> angles[1],
                ishaAngle |-> angles[2]]
    /\ result' = scoreAngles(observations, angles[1], angles[2])
    /\ UNCHANGED <<observations, options>>

Next == Calibrate \/ Score

Spec == Init /\ [][Next]_vars

(***************************************************************************)
(* Properties.  What a property says about the observations is computed    *)
(* from the list itself, not by the operators of calibrate.ts or score.ts. *)
(***************************************************************************)

Calibrated == call.op = "calibrateAngles"
Succeeded == Calibrated /\ ~result.threw
Scored == call.op = "scoreAngles"

\* The positions of the observations that carry a dawn (dusk) time.
DawnSubset == {i \in 1..Len(observations) : observations[i].fajr # undefined}
DuskSubset == {i \in 1..Len(observations) : observations[i].isha # undefined}

\* The options in force, with the defaults for those omitted.
OptFajrMin == IF options.fajrMin = undefined THEN 1000 ELSE Val(options.fajrMin)
OptFajrMax == IF options.fajrMax = undefined THEN 2200 ELSE Val(options.fajrMax)
OptIshaMin == IF options.ishaMin = undefined THEN 1000 ELSE Val(options.ishaMin)
OptIshaMax == IF options.ishaMax = undefined THEN 2200 ELSE Val(options.ishaMax)
OptTol == IF options.tol = undefined THEN 1 ELSE Val(options.tol)
OptMaxIter == IF options.maxIter = undefined THEN 200 ELSE Val(options.maxIter)
OptFajrAngle0 ==
  IF options.fajrAngle0 = undefined THEN 1500 ELSE Val(options.fajrAngle0)
OptIshaAngle0 ==
  IF options.ishaAngle0 = undefined THEN 1500 ELSE Val(options.ishaAngle0)

\* The angles a result belongs to: those passed to scoreAngles, or those
\* calibrateAngles returned.
FajrAngleUsed == IF Scored THEN call.fajrAngle ELSE result.angles.fajrAngle
IshaAngleUsed == IF Scored THEN call.ishaAngle ELSE result.angles.ishaAngle

\* The prediction for observation o of a prayer at an angle.
Predicted(o, field, angle) ==
  IF field = "fajr" THEN predictFajr(o.date, o.lat, o.lng, o.tz, angle)
  ELSE predictIsha(o.date, o.lat, o.lng, o.tz, angle)

\* The weight of observation i.
WeightAt(i) ==
  IF observations[i].weight = undefined THEN 1 ELSE Val(observations[i].weight)

\* The sum of f[1] .. f[n].
RECURSIVE SumTo(_, _)
SumTo(f, n) == IF n = 0 THEN 0 ELSE f[n] + SumTo(f, n - 1)

\* C1: calibrateAngles throws the insufficient-data error exactly when both
\* the dawn subset and the dusk subset have fewer than 2 members; with 2 or
\* more in either subset it returns a result.
C1_ThrowsIffBothSubsetsSmall ==
  Calibrated =>
    (result.threw <=>
       (Cardinality(DawnSubset) < 2 /\ Cardinality(DuskSubset) < 2))

\* A call that succeeds with 2 or more dawn observations and a single dusk one.
C1_Witness ==
  /\ Calibrated
  /\ ~result.threw
  /\ Cardinality(DawnSubset) >= 2
  /\ Cardinality(DuskSubset) = 1

\* C2: in a successful call, the angle of a prayer whose subset has fewer
\* than 2 members is the initial guess for that prayer (fajrAngle0 for dawn,
\* ishaAngle0 for dusk, 15 degrees when omitted), unchanged.
C2_UnfitAngleIsInitialGuess ==
  Succeeded =>
    /\ Cardinality(DawnSubset) < 2 => result.angles.fajrAngle = OptFajrAngle0
    /\ Cardinality(DuskSubset) < 2 => result.angles.ishaAngle = OptIshaAngle0

\* A successful call with fewer than 2 dusk observations and a dusk guess that
\* is not the default and differs from the fitted dawn angle.
C2_Witness ==
  /\ Succeeded
  /\ Cardinality(DuskSubset) < 2
  /\ options.ishaAngle0 = {1200}
  /\ result.angles.ishaAngle = 1200
  /\ result.angles.fajrAngle # 1200

\* C3 as stated: in a successful call each returned angle, fit or not, lies
\* in [min, max] of its prayer.
C3_EveryAngleWithinBounds ==
  Succeeded =>
    /\ OptFajrMin <= result.angles.fajrAngle
    /\ result.angles.fajrAngle <= OptFajrMax
    /\ OptIshaMin <= result.angles.ishaAngle
    /\ result.angles.ishaAngle <= OptIshaMax

\* C3, amended: in a successful call with min <= max, an angle that was fit
\* (its subset has 2 or more members) lies in [min, max] of its prayer; an
\* angle that was not fit lies there exactly when the initial guess does.
C3_FitAngleWithinBounds ==
  Succeeded =>
    /\ Cardinality(DawnSubset) >= 2 =>
         /\ OptFajrMin <= result.angles.fajrAngle
         /\ result.angles.fajrAngle <= OptFajrMax
    /\ Cardinality(DuskSubset) >= 2 =>
         /\ OptIshaMin <= result.angles.ishaAngle
         /\ result.angles.ishaAngle <= OptIshaMax
    /\ Cardinality(DawnSubset) < 2 =>
         ((OptFajrMin <= result.angles.fajrAngle
             /\ result.angles.fajrAngle <= OptFajrMax)
            <=> (OptFajrMin <= OptFajrAngle0 /\ OptFajrAngle0 <= OptFajrMax))
    /\ Cardinality(DuskSubset) < 2 =>
         ((OptIshaMin <= result.angles.ishaAngle
             /\ result.angles.ishaAngle <= OptIshaMax)
            <=> (OptIshaMin <= OptIshaAngle0 /\ OptIshaAngle0 <= OptIshaMax))

\* A successful call under bounds that are not the defaults, in which the
\* dawn angle was fit and the dusk angle, not fit, is above ishaMax.
C3_Witness ==
  /\ Succeeded
  /\ options.fajrMin # undefined
  /\ Cardinality(DawnSubset) >= 2
  /\ Cardinality(DuskSubset) < 2
  /\ result.angles.fajrAngle >= OptFajrMin
  /\ result.angles.ishaAngle > OptIshaMax

\* The positions that carry a time for a prayer, and the returned angle and
\* the bounds of that prayer.
Subset(field) == IF field = "fajr" THEN DawnSubset ELSE DuskSubset
AngleOf(field) ==
  IF field = "fajr" THEN result.angles.fajrAngle ELSE result.angles.ishaAngle
MinOf(field) == IF field = "fajr" THEN OptFajrMin ELSE OptIshaMin
MaxOf(field) == IF field = "fajr" THEN OptFajrMax ELSE OptIshaMax

\* The true angles (1/100 degree) the generated observations come from.
Thetas == {1200, 1500}

\* Every time of a prayer in the list is the predictor's own time at theta.
GeneratedAt(field, theta) ==
  \A i \in Subset(field) :
    /\ Predicted(observations[i], field, theta) # NaN
    /\ observations[i][field] = Predicted(observations[i], field, theta)

\* Two observations of a prayer differ in date or in latitude.
Differing(field) ==
  \E i, j \in Subset(field) :
    \/ observations[i].date # observations[j].date
    \/ observations[i].lat # observations[j].lat

\* The premise of recovery for a prayer and a true angle.
Recoverable(field, theta) ==
  /\ MinOf(field) <= theta
  /\ theta <= MaxOf(field)
  /\ Cardinality(Subset(field)) >= 2
  /\ Differing(field)
  /\ GeneratedAt(field, theta)

\* C4 as stated: when the times of a prayer were generated by the predictor
\* at an angle theta inside the bounds, by 2 or more observations that differ
\* in date or latitude, the returned angle of that prayer is within tol of
\* theta; when this is so for every prayer the list has times for, the RMS is
\* below 0.1 minute.  (Stated for calls whose maxIter lets the search reach
\* tol, and the RMS for the default tol.)
C4_Recovery ==
  (Succeeded /\ OptMaxIter >= 50) =>
    /\ \A field \in {"fajr", "isha"} : \A theta \in Thetas :
         Recoverable(field, theta) => Abs(AngleOf(field) - theta) <= OptTol
    /\ (/\ options.tol = undefined
        /\ \A field \in {"fajr", "isha"} :
             \/ Subset(field) = {}
             \/ \E theta \in Thetas : Recoverable(field, theta))
         => result.rmsMinutes < 10

\* C5: the residuals and the RMS of a successful calibrateAngles call are
\* those scoreAngles returns for the same full observation list and the
\* returned angles.
C5_ResidualsAndRmsAreTheScore ==
  Succeeded =>
    /\ result.residuals =
         scoreAngles(observations, result.angles.fajrAngle,
                     result.angles.ishaAngle).residuals
    /\ result.rmsMinutes =
         scoreAngles(observations, result.angles.fajrAngle,
                     result.angles.ishaAngle).rmsMinutes

\* A successful call fit on dusk times only, whose single dawn observation,
\* outside the fitting subsets, has a residual, with observations of
\* different weights.
C5_Witness ==
  /\ Succeeded
  /\ Cardinality(DawnSubset) = 1
  /\ Cardinality(DuskSubset) >= 2
  /\ \A i \in DawnSubset : result.residuals[i].fajrMin # null
  /\ \E i, j \in 1..Len(observations) : WeightAt(i) # WeightAt(j)
  /\ result.rmsMinutes > 0

\* The residual observation i is to have for a prayer at an angle: null
\* without a time or with a non-finite prediction, (predicted - observed) * 60
\* otherwise.
ExpectedResidual(i, field, angle) ==
  IF \/ observations[i][field] = undefined
     \/ Predicted(observations[i], field, angle) = NaN
  THEN null
  ELSE {RDiv((Val(Predicted(observations[i], field, angle))
                - Val(observations[i][field])) * 60, 100)}

\* C6: the residual list of scoreAngles and of calibrateAngles has one entry
\* per observation, in input order; the dawn (dusk) residual of entry i is
\* null exactly when observation i has no dawn (dusk) time or the prediction
\* is not finite, and is (predicted - observed) * 60 otherwise.
C6_ResidualsAlignedWithObservations ==
  (Scored \/ Succeeded) =>
    /\ Len(result.residuals) = Len(observations)
    /\ \A i \in 1..Len(observations) :
         /\ result.residuals[i].fajrMin =
              ExpectedResidual(i, "fajr", FajrAngleUsed)
         /\ result.residuals[i].ishaMin =
              ExpectedResidual(i, "isha", IshaAngleUsed)

\* A successful call whose list has a dawn time with a non-finite prediction,
\* an observation without a dusk time, and a dawn residual that is not 0.
C6_Witness ==
  /\ Succeeded
  /\ \E i \in DawnSubset :
       /\ Predicted(observations[i], "fajr", result.angles.fajrAngle) = NaN
       /\ result.residuals[i].fajrMin = null
  /\ \E i \in 1..Len(observations) :
       /\ observations[i].isha = undefined
       /\ result.residuals[i].ishaMin = null
  /\ \E i \in DawnSubset :
       /\ result.residuals[i].fajrMin # null
       /\ result.residuals[i].fajrMin # {0}

\* The residual of entry i of the result for a prayer.
ResidualAt(i, field) ==
  IF field = "fajr" THEN result.residuals[i].fajrMin
  ELSE result.residuals[i].ishaMin

\* Over the entries with a finite residual for a prayer: the sum of the
\* weights, of weight * residual and of weight * residual^2.
TotalWeightOf(field) ==
  SumTo([i \in 1..Len(observations) |->
           IF ResidualAt(i, field) = null THEN 0 ELSE WeightAt(i)],
        Len(observations))
WeightedSumOf(field) ==
  SumTo([i \in 1..Len(observations) |->
           IF ResidualAt(i, field) = null THEN 0
           ELSE WeightAt(i) * Val(ResidualAt(i, field))],
        Len(observations))
WeightedSquaresOf(field) ==
  SumTo([i \in 1..Len(observations) |->
           IF ResidualAt(i, field) = null THEN 0
           ELSE WeightAt(i) * Val(ResidualAt(i, field))
                  * Val(ResidualAt(i, field))],
        Len(observations))

\* sqrt(sum of w * residual^2 / sum of w) over the finite residuals of both
\* prayers, 0 when the sum of weights is 0.
ExpectedRms ==
  IF TotalWeightOf("fajr") + TotalWeightOf("isha") = 0 THEN 0
  ELSE ISqrt(RDiv(WeightedSquaresOf("fajr") + WeightedSquaresOf("isha"),
                  TotalWeightOf("fajr") + TotalWeightOf("isha")))

\* C7: the RMS of scoreAngles is sqrt(sum of w * residual^2 / sum of w) over
\* the finite residuals of both prayers together, an observation with both
\* residuals adding its weight twice; it is 0 when the total weight is 0; for
\* an empty list the residual list is empty.
C7_RmsOverBothPrayers ==
  Scored =>
    /\ result.rmsMinutes = ExpectedRms
    /\ TotalWeightOf("fajr") + TotalWeightOf("isha") = 0
         => result.rmsMinutes = 0
    /\ observations = <<>> => result.residuals = <<>>

\* A score of a list with an observation of weight 2 that has both residuals
\* finite, and another observation of another weight, with an RMS above 0.
C7_Witness ==
  /\ Scored
  /\ \E i \in DawnSubset \cap DuskSubset :
       /\ WeightAt(i) = 2
       /\ result.residuals[i].fajrMin # null
       /\ result.residuals[i].ishaMin # null
  /\ \E i \in DawnSubset \cup DuskSubset : WeightAt(i) = 1
  /\ result.rmsMinutes > 0

\* The weighted mean of the finite residuals of a prayer, 0 without any.
ExpectedBias(field) ==
  IF TotalWeightOf(field) = 0 THEN 0
  ELSE RDiv(WeightedSumOf(field), TotalWeightOf(field))

C9_ObservationCountIsHalfTheTimes ==
  Succeeded =>
    result.observationCount * 2
      = (Cardinality(DawnSubset) + Cardinality(DuskSubset)) * 10

\* A successful call on an observation with both times, one with a single
\* time and one with neither: the count is 1.5.
C9_Witness ==
  /\ Succeeded
  /\ DawnSubset \cap DuskSubset # {}
  /\ (DawnSubset \ DuskSubset) \cup (DuskSubset \ DawnSubset) # {}
  /\ (1..Len(observations)) \ (DawnSubset \cup DuskSubset) # {}
  /\ result.observationCount = 15

\* The observations with the dawn (dusk) time removed where the prediction
\* at fajrAngle (ishaAngle) is not finite.
OnlyFinite(fajrAngle, ishaAngle) ==
  [i \in 1..Len(observations) |->
     [observations[i] EXCEPT
        !.fajr = IF Predicted(observations[i], "fajr", fajrAngle) = NaN
                 THEN undefined ELSE @,
        !.isha = IF Predicted(observations[i], "isha", ishaAngle) = NaN
                 THEN undefined ELSE @]]

\* The angles at which the loss is compared.
LossAngles == {1200, 1500, 1800}

\* The loss of a prayer at an angle, summed over the observations that have
\* the time and a finite prediction.
ExpectedLoss(field, angle) ==
  SumTo([i \in 1..Len(observations) |->
           IF ExpectedResidual(i, field, angle) = null THEN 0
           ELSE WeightAt(i) * Val(ExpectedResidual(i, field, angle))
                  * Val(ExpectedResidual(i, field, angle))],
        Len(observations))

\* C10: a non-finite prediction for a prayer adds nothing for that prayer,
\* and raises no error.  Its residual is null; scoreAngles returns what it
\* returns for the list without that time; the RMS of calibrateAngles is
\* that of the finite residuals alone; fajrLoss and ishaLoss of the call are
\* the sums over the observations with a finite prediction.
C10_NonFiniteContributesNothing ==
  /\ (Scored \/ Succeeded) =>
       \A i \in 1..Len(observations) : \A field \in {"fajr", "isha"} :
         Predicted(observations[i], field,
                   IF field = "fajr" THEN FajrAngleUsed ELSE IshaAngleUsed)
             = NaN
           => ResidualAt(i, field) = null
  /\ Scored =>
       result = scoreAngles(OnlyFinite(call.fajrAngle, call.ishaAngle),
                            call.fajrAngle, call.ishaAngle)
  /\ Succeeded => result.rmsMinutes = ExpectedRms
  /\ (Calibrated /\ result.threw) =>
       Cardinality(DawnSubset) < 2 /\ Cardinality(DuskSubset) < 2
  /\ Calibrated =>
       \A field \in {"fajr", "isha"} : \A angle \in LossAngles :
         Loss(Filter(observations, field), field, angle)
           = ExpectedLoss(field, angle)

\* A successful call fit on 2 or more dawn times of which one has a
\* non-finite prediction at the fitted angle and another a residual that is
\* not 0.
C10_Witness ==
  /\ Succeeded
  /\ Cardinality(DawnSubset) >= 2
  /\ \E i \in DawnSubset :
       /\ Predicted(observations[i], "fajr", result.angles.fajrAngle) = NaN
       /\ result.residuals[i].fajrMin = null
  /\ \E i \in DawnSubset :
       /\ result.residuals[i].fajrMin # null
       /\ result.residuals[i].fajrMin # {0}
  /\ result.rmsMinutes > 0
  /\ result.rmsMinutes = ExpectedRms

(***************************************************************************)
(* The ephemeris and the predictor called on their own: a caller asks for  *)
(* the crossing, the dawn time or the dusk time at a site and an angle.    *)
(***************************************************************************)

\* The depression angles (1/100 degree) the callers ask for: the whole
\* degrees, and the hundredths around London's last crossing at the solstice.
Angles ==
  {a \in AngleLo..AngleHi : a % 100 = 0 \/ (1500 <= a /\ a <= 1510)}

PredictInit ==
  /\ observations = <<>>
  /\ options = NoOptions
  /\ call = [op |-> "none"]
  /\ result = [op |-> "none"]

HorizonCrossing ==
  \E s \in Sites : \E angle \in Angles :
    /\ call' = [op |-> "horizonCrossing", date |-> s.date, lat |-> s.lat,
                lng |-> s.lng, tz |-> s.tz, angle |-> angle]
    /\ result' = Ephemeris[s][-angle]
    /\ UNCHANGED <<observations, options>>

PredictFajr ==
  \E s \in Sites : \E angle \in Angles :
    /\ call' = [op |-> "predictFajr", date |-> s.date, lat |-> s.lat,
                lng |-> s.lng, tz |-> s.tz, angle |-> angle]
    /\ result' = predictFajr(s.date, s.lat, s.lng, s.tz, angle)
    /\ UNCHANGED <<observations, options>>

PredictIsha ==
  \E s \in Sites : \E angle \in Angles :
    /\ call' = [op |-> "predictIsha", date |-> s.date, lat |-> s.lat,
                lng |-> s.lng, tz |-> s.tz, angle |-> angle]
    /\ result' = predictIsha(s.date, s.lat, s.lng, s.tz, angle)
    /\ UNCHANGED <<observations, options>>

PredictNext == HorizonCrossing \/ PredictFajr \/ PredictIsha

PredictSpec == PredictInit /\ [][PredictNext]_vars

\* The call is one of the ephemeris or of the predictor.
CrossingCalled == call.op = "horizonCrossing"
FajrPredicted == call.op = "predictFajr"
IshaPredicted == call.op = "predictIsha"

\* cosH of horizonCrossing for the site of the call at a depression angle.
CosH(angle) ==
  FDiv(Sin(Rad(-angle * 10000))
         - FMul(Sin(Rad(call.lat * 100)), Sin(solar(jdn(call.date)).declRad)),
       FMul(Cos(Rad(call.lat * 100)), Cos(solar(jdn(call.date)).declRad)))

\* cosH is within [-1, 1].
CrossingExists(angle) ==
  -1000000 <= CosH(angle) /\ CosH(angle) <= 1000000

\* What horizonCrossing gives for the site of the call at an angle.
CrossingAt(angle) ==
  Ephemeris[[date |-> call.date, lat |-> call.lat, lng |-> call.lng,
             tz |-> call.tz]][-angle]

\* The dawn and dusk predictions for the site of the call at an angle.
DawnAt(angle) == predictFajr(call.date, call.lat, call.lng, call.tz, angle)
DuskAt(angle) == predictIsha(call.date, call.lat, call.lng, call.tz, angle)

\* C11: when cosH is outside [-1, 1], horizonCrossing returns NaN for rise
\* and for set, and when it is inside both are finite, so rise and set are
\* both finite or both NaN; predictFajr and predictIsha return what
\* horizonCrossing gave, NaN included, and raise nothing.
C11_NoCrossingIsNaNForBoth ==
  /\ CrossingCalled =>
       /\ ~CrossingExists(call.angle) => result = <<NaN, NaN>>
       /\ CrossingExists(call.angle) => (result[1] # NaN /\ result[2] # NaN)
       /\ result[1] = NaN <=> result[2] = NaN
  /\ FajrPredicted =>
       /\ result = CrossingAt(call.angle)[1]
       /\ result = NaN <=> ~CrossingExists(call.angle)
  /\ IshaPredicted =>
       /\ result = CrossingAt(call.angle)[2]
       /\ result = NaN <=> ~CrossingExists(call.angle)

\* predictFajr returned NaN in London, where the angles below it have a
\* crossing and this one has not.
C11_Witness ==
  /\ FajrPredicted
  /\ call.lat = London.lat
  /\ result = NaN
  /\ ~CrossingExists(call.angle)
  /\ CrossingExists(call.angle - 1)
  /\ DawnAt(call.angle - 1) # NaN

\* C12: for a fixed date, latitude, longitude and UTC offset and two angles
\* a1 < a2 with finite predictions, predictFajr at a2 is strictly earlier
\* than at a1 and predictIsha at a2 is strictly later than at a1.
C12_MonotoneInAngle ==
  /\ (FajrPredicted /\ result # NaN) =>
       \A a \in AngleLo..AngleHi :
         DawnAt(a) # NaN =>
           /\ a > call.angle => Val(DawnAt(a)) < Val(result)
           /\ a < call.angle => Val(DawnAt(a)) > Val(result)
  /\ (IshaPredicted /\ result # NaN) =>
       \A a \in AngleLo..AngleHi :
         DuskAt(a) # NaN =>
           /\ a > call.angle => Val(DuskAt(a)) > Val(result)
           /\ a < call.angle => Val(DuskAt(a)) < Val(result)

\* predictIsha at 15 degrees in London, between the finite predictions at 10
\* and at 15.05 degrees.
C12_Witness ==
  /\ IshaPredicted
  /\ call.lat = London.lat
  /\ call.angle = 1500
  /\ result # NaN
  /\ DuskAt(1000) # NaN
  /\ DuskAt(1505) # NaN
  /\ Val(DuskAt(1000)) < Val(result)
  /\ Val(result) < Val(DuskAt(1505))

\* C13: for every date, location and angle with a crossing, the dawn
\* prediction is strictly earlier than the dusk prediction.
C13_DawnBeforeDusk ==
  /\ (CrossingCalled /\ result[1] # NaN) => Val(result[1]) < Val(result[2])
  /\ (FajrPredicted /\ result # NaN) =>
       Val(result) < Val(DuskAt(call.angle))
  /\ (IshaPredicted /\ result # NaN) =>
       Val(DawnAt(call.angle)) < Val(result)
  /\ (CrossingCalled \/ FajrPredicted \/ IshaPredicted) =>
       \A a \in AngleLo..AngleHi :
         DawnAt(a) # NaN => Val(DawnAt(a)) < Val(DuskAt(a))

\* predictFajr in New York in January, with the dusk of the same day and
\* angle after it.
C13_Witness ==
  /\ FajrPredicted
  /\ call.date = NYJan.date
  /\ call.lat = NYJan.lat
  /\ result # NaN
  /\ DuskAt(call.angle) # NaN
  /\ Val(result) < Val(DuskAt(call.angle))

\* The positive constants the weights are multiplied by.
Scales == {2, 3}

\* The observations with every weight multiplied by k.
Scaled(k) ==
  [i \in 1..Len(observations) |->
     [observations[i] EXCEPT !.weight = {k * WeightAt(i)}]]

\* C14: multiplying the weight of every observation by the same positive
\* constant leaves both angles calibrateAngles returns unchanged.
C14_WeightScaleInvariance ==
  Succeeded =>
    \A k \in Scales :
      calibrateAngles(Scaled(k), options).angles = result.angles

\* A successful call that fit the dawn angle to observations of different
\* weights that no single angle predicts.
C14_Witness ==
  /\ Succeeded
  /\ Cardinality(DawnSubset) >= 2
  /\ \E i, j \in DawnSubset : WeightAt(i) = 1 /\ WeightAt(j) = 2
  /\ \A theta \in Thetas : ~GeneratedAt("fajr", theta)
  /\ result.angles.fajrAngle \notin Thetas
  /\ calibrateAngles(Scaled(3), options).angles = result.angles

(***************************************************************************)
(* Weighted regression: a caller mixes observations of weight 1 generated  *)
(* at 15 degrees with at most one observation of weight 20 generated at    *)
(* 20 degrees.                                                             *)
(***************************************************************************)

LowWeightPool ==
  { Obs(NYJan, FajrAt(NYJan, 1500), IshaAt(NYJan, 1500), {1}),
    Obs(NYJul, FajrAt(NYJul, 1500), IshaAt(NYJul, 1500), {1}) }

HighWeightPool ==
  { Obs(NYJan, FajrAt(NYJan, 2000), IshaAt(NYJan, 2000), {20}),
    Obs(NYJul, FajrAt(NYJul, 2000), IshaAt(NYJul, 2000), {20}) }

\* The positions of a list that hold an observation of weight 20.
HighIn(l) == {i \in 1..Len(l) : l[i] \in HighWeightPool}

WeightedLists ==
  {l \in UNION {[1..n -> LowWeightPool \cup HighWeightPool] : n \in 0..MaxObs} :
     Cardinality(HighIn(l)) <= 1}

WeightedInit ==
  /\ observations \in WeightedLists
  /\ options = NoOptions
  /\ call = [op |-> "none"]
  /\ result = [op |-> "none"]

WeightedSpec == WeightedInit /\ [][Next]_vars

\* C15: with a few observations of weight 1 generated at 15 degrees and one
\* observation of weight 20 generated at 20 degrees, each angle
\* calibrateAngles returns is closer to 20 than to 15.
C15_HighWeightPullsAngle ==
  (/\ Succeeded
   /\ Cardinality(HighIn(observations)) = 1
   /\ Len(observations) >= 2) =>
    /\ Abs(result.angles.fajrAngle - 2000) < Abs(result.angles.fajrAngle - 1500)
    /\ Abs(result.angles.ishaAngle - 2000) < Abs(result.angles.ishaAngle - 1500)

\* A successful call on two observations of weight 1 and one of weight 20:
\* the dawn angle is between 17.5 and 20 degrees.
C15_Witness ==
  /\ Succeeded
  /\ Cardinality(HighIn(observations)) = 1
  /\ Len(observations) = 3
  /\ result.angles.fajrAngle > 1750
  /\ result.angles.fajrAngle < 2000

\* The positions of the observations that have neither time.
Untimed == (1..Len(observations)) \ (DawnSubset \cup DuskSubset)

\* The first n entries of a list as long as the observations, without those
\* at the positions of the observations that have neither time.
RECURSIVE WithoutUntimed(_, _)
WithoutUntimed(list, n) ==
  IF n = 0 THEN <<>>
  ELSE IF n \in Untimed THEN WithoutUntimed(list, n - 1)
       ELSE Append(WithoutUntimed(list, n - 1), list[n])

\* What calibrateAngles returns without the observations that have neither
\* time.
CalibratedWithoutUntimed ==
  calibrateAngles(WithoutUntimed(observations, Len(observations)), options)

\* C16: observations with neither a dawn nor a dusk time change nothing in a
\* calibration but the residual list: with and without them the call raises
\* the same error or returns the same angles, RMS and observation count, and
\* the same residuals at the other positions; their own residual entry has
\* both residuals null.
C16_UntimedObservationIsNoOp ==
  Calibrated /\ Untimed # {} =>
    /\ result.threw => CalibratedWithoutUntimed = result
    /\ ~result.threw =>
         /\ Len(result.residuals) = Len(observations)
         /\ \A i \in Untimed :
              result.residuals[i] = [fajrMin |-> null, ishaMin |-> null]
         /\ CalibratedWithoutUntimed =
              [result EXCEPT
                 !.residuals = WithoutUntimed(@, Len(observations))]

\* A successful call with an RMS above 0 on a list whose second observation
\* has neither time, between two that have.
C16_Witness ==
  /\ Succeeded
  /\ Len(observations) = 3
  /\ Untimed = {2}
  /\ result.rmsMinutes > 0
  /\ result.residuals[2] = [fajrMin |-> null, ishaMin |-> null]
  /\ result.angles = CalibratedWithoutUntimed.angles

(***************************************************************************)
(* Defaults of the options.                                                *)
(***************************************************************************)

\* The options with every omitted one written out at its default.
WithDefaults(opts) ==
  [fajrAngle0 |-> {OrDefault(opts.fajrAngle0, 1500)},
   ishaAngle0 |-> {OrDefault(opts.ishaAngle0, 1500)},
   fajrMin |-> {OrDefault(opts.fajrMin, 1000)},
   fajrMax |-> {OrDefault(opts.fajrMax, 2200)},
   ishaMin |-> {OrDefault(opts.ishaMin, 1000)},
   ishaMax |-> {OrDefault(opts.ishaMax, 2200)},
   maxIter |-> {OrDefault(opts.maxIter, 200)},
   tol |-> {OrDefault(opts.tol, 1)}]

SolverPool ==
  { Obs(NYJan, FajrAt(NYJan, 1500), IshaAt(NYJan, 1500), undefined),
    Obs(NYJul, FajrAt(NYJul, 1500), IshaAt(NYJul, 1200), {2}),
    Obs(NYJul, FajrAt(NYJul, 1200), undefined, undefined),
    Obs(Tromso, {20000}, {230000}, undefined) }

SolverLists == UNION {[1..n -> SolverPool] : n \in 0..(MaxObs - 1)}

SolverOptions ==
  { NoOptions,
    [NoOptions EXCEPT !.tol = {-1}],
    [NoOptions EXCEPT !.tol = {-1}, !.maxIter = {150}],
    [NoOptions EXCEPT !.maxIter = {0}] }

SolverInit ==
  /\ observations \in SolverLists
  /\ options \in SolverOptions
  /\ call = [op |-> "none"]
  /\ result = [op |-> "none"]

SolverSpec == SolverInit /\ [][Next]_vars

\* The variables of the search of a prayer's angle when its loop has ended.
Searched(field) ==
  gsLoop(Filter(observations, field), field,
         gsStart(Filter(observations, field), field, MinOf(field), MaxOf(field)),
         tolOf(options), maxIterOf(options))

\* The number of iterations the search of a prayer's angle performed.
Iterations(field) == Searched(field).i

\* The prayers whose angle was fitted.
Fitted == {field \in {"fajr", "isha"} : Cardinality(Subset(field)) >= 2}

C20_InputsUnchanged ==
  [][observations' = observations /\ options' = options]_vars

C20_Witness ==
  /\ Calibrated
  /\ result.threw
  /\ Len(observations) = MaxObs
  /\ \E i \in 1..Len(observations) : observations[i].weight = undefined
  /\ options # NoOptions
  /\ observations \in ListsOf(MaxObs)

(***************************************************************************)
(* Independence of the two fits.                                           *)
(***************************************************************************)

\* The observations with every time of a prayer removed.
Without(field) ==
  [i \in 1..Len(observations) |->
     [observations[i] EXCEPT ![field] = undefined]]

\* The options with other bounds and another initial guess for a prayer.
OtherOptions(field) ==
  IF field = "fajr"
  THEN [options EXCEPT !.fajrMin = {1700}, !.fajrMax = {1900},
                       !.fajrAngle0 = {1100}]
  ELSE [options EXCEPT !.ishaMin = {1700}, !.ishaMax = {1900},
                       !.ishaAngle0 = {1100}]

\* C21: the two angles are fit independently: when the dawn subset has 2 or
\* more members, the dawn angle calibrateAngles returns is the one it returns
\* with every dusk time removed and with other dusk bounds and another dusk
\* initial guess; symmetrically for the dusk angle.
C21_AnglesFitIndependently ==
  Succeeded =>
    /\ Cardinality(DawnSubset) >= 2 =>
         calibrateAngles(Without("isha"), OtherOptions("isha")).angles.fajrAngle
           = result.angles.fajrAngle
    /\ Cardinality(DuskSubset) >= 2 =>
         calibrateAngles(Without("fajr"), OtherOptions("fajr")).angles.ishaAngle
           = result.angles.ishaAngle

\* Both prayers are fitted, to different angles, neither at a bound.
C21_Witness ==
  /\ Succeeded
  /\ Cardinality(DawnSubset) >= 2
  /\ Cardinality(DuskSubset) >= 2
  /\ result.angles.fajrAngle # result.angles.ishaAngle
  /\ OptFajrMin < result.angles.fajrAngle - 10
  /\ result.angles.ishaAngle + 10 < OptIshaMax
  /\ calibrateAngles(Without("isha"), OtherOptions("isha")).angles.ishaAngle
       = 1100

(***************************************************************************)
(* The golden-section loop.                                                *)
(***************************************************************************)

\* The variables of the search of a prayer's angle after n iterations, or
\* when its loop has ended if that is earlier.
SearchedAfter(field, n) ==
  gsRun(Filter(observations, field), field,
        gsStart(Filter(observations, field), field, MinOf(field), MaxOf(field)),
        OptTol, OptMaxIter, n)

\* The number of times the search of a prayer's angle evaluated the loss:
\* f(x1) and f(x2) before the loop, and one of them in each iteration.
Evaluations(field) == 2 + Iterations(field)

\* b - a of the variables of a search.
Width(g) == g.b - g.a

\* C22: the loop of a search ends as soon as the bracket is no wider than the
\* tolerance or the iteration count is maxIter: it has ended with one of
\* the two, after at most maxIter iterations, and had neither one iteration
\* earlier.  The loss is evaluated at most maxIter + 2 times, the angle
\* returned is the midpoint of the last bracket, and with maxIter = 0 the
\* midpoint of the bounds.
C22_LoopStopsAtToleranceOrCap ==
  Succeeded =>
    \A field \in Fitted :
      LET g == Searched(field) IN
        /\ Width(g) <= OptTol \/ g.i = OptMaxIter
        /\ g.i <= OptMaxIter
        /\ g.i > 0 =>
             LET h == SearchedAfter(field, g.i - 1) IN
               h.i = g.i - 1 /\ Width(h) > OptTol
        /\ Evaluations(field) <= OptMaxIter + 2
        /\ AngleOf(field) = (g.a + g.b) \div 2
        /\ OptMaxIter = 0 =>
             AngleOf(field) = (MinOf(field) + MaxOf(field)) \div 2

\* A search ended by the tolerance, before the cap.
C22_Witness ==
  /\ Succeeded
  /\ options = NoOptions
  /\ "fajr" \in Fitted
  /\ Iterations("fajr") > 10
  /\ Iterations("fajr") < 200
  /\ Width(Searched("fajr")) <= 1
  /\ Width(SearchedAfter("fajr", Iterations("fajr") - 1)) > 1

(***************************************************************************)
(* The fitted angle as the minimizer of the loss.                          *)
(***************************************************************************)

\* The loss of a prayer's subset at an angle.
LossAt(field, angle) == Loss(Filter(observations, field), field, angle)

\* The angles of [min, max] the returned angle is compared with.
Rivals(field) ==
  {angle \in LossAngles : MinOf(field) <= angle /\ angle <= MaxOf(field)}

\* C23 as stated: the angle returned for a prayer with 2 or more
\* observations minimizes the loss on [min, max] to within tol: no angle of
\* the interval farther than tol from it has a strictly smaller loss.
\* (Stated for calls whose maxIter lets the search reach tol.)
C23_AngleMinimizesLoss ==
  (Succeeded /\ OptMaxIter >= 50) =>
    \A field \in Fitted : \A angle \in Rivals(field) :
      Abs(angle - AngleOf(field)) > OptTol =>
        LossAt(field, angle) >= LossAt(field, AngleOf(field))

(***************************************************************************)
(* The bracket of goldenSection.  The search is run on [10, 22] with the   *)
(* default tolerance, in millionths of a degree (tol = 1e-5 is 10), one    *)
(* iteration per step, for functions f with the minimum at one of a few    *)
(* points of the interval and outside it, and for a constant f.            *)
(***************************************************************************)

BracketLo == 10 * 1000000
BracketHi == 22 * 1000000
BracketTol == 10

\* The minimum of f, in degrees; none for the constant f.
Minima == {{}, {5}, {10}, {13}, {16}, {19}, {22}, {30}}

\* f(x): the distance of x from the minimum c, or 0.
F(c, x) == IF c = {} THEN 0 ELSE Abs(x - Val(c) * 1000000)

\* The variables before the first iteration, for an f given by its minimum.
BracketStart(c) ==
  gsVars(BracketLo, BracketHi,
         BracketHi - PhiTimes(BracketHi - BracketLo),
         BracketLo + PhiTimes(BracketHi - BracketLo),
         F(c, BracketHi - PhiTimes(BracketHi - BracketLo)),
         F(c, BracketLo + PhiTimes(BracketHi - BracketLo)), 0)

BracketInit ==
  /\ observations = <<>>
  /\ options = NoOptions
  /\ call = [op |-> "none"]
  /\ result = [op |-> "none"]

\* goldenSection is called: the statements before the loop.
GsStart ==
  \E c \in Minima :
    /\ call' = [op |-> "goldenSection", f |-> c]
    /\ result' = BracketStart(c)
    /\ UNCHANGED <<observations, options>>

\* One iteration of the loop.
GsIterate ==
  /\ call.op = "goldenSection"
  /\ gsContinues(result, BracketTol, maxIterOf(options))
  /\ result' = gsNext(result, F(call.f, gsProbe(result)))
  /\ UNCHANGED <<observations, options, call>>

BracketNext == GsStart \/ GsIterate

BracketSpec == BracketInit /\ [][BracketNext]_vars

\* (b0 - a0) * phi^n, in millionths of a degree.
RECURSIVE PhiPower(_)
PhiPower(n) ==
  IF n = 0 THEN BracketHi - BracketLo ELSE PhiTimes(PhiPower(n - 1))

\* C24: in every iteration of the search a <= x1 <= x2 <= b; an iteration
\* leaves the new bracket inside the previous one and multiplies its width by
\* phi (0.618), so that after n iterations the width is (b0 - a0) * phi^n;
\* with the default tolerance on [10, 22] the loop ends by the width after at
\* most 60 iterations, before the iteration cap.  Widths are equal to within
\* the rounding of the grid, 5 millionths of a degree.
C24_BracketShrinksByPhi ==
  /\ [](call.op = "goldenSection" =>
          /\ result.a <= result.x1
          /\ result.x1 <= result.x2
          /\ result.x2 <= result.b
          /\ Abs(Width(result) - PhiPower(result.i)) <= 5
          /\ result.i <= 60
          /\ result.i = 60 => Width(result) <= BracketTol)
  /\ [][GsIterate =>
          /\ result.a <= result'.a
          /\ result'.b <= result.b
          /\ result'.i = result.i + 1
          /\ Abs(Width(result') - PhiTimes(Width(result))) <= 5]_vars

\* The search has ended by the width, after more than 20 iterations, with
\* the bracket strictly inside [10, 22].
C24_Witness ==
  /\ call.op = "goldenSection"
  /\ Width(result) <= BracketTol
  /\ result.i > 20
  /\ BracketLo < result.a
  /\ result.b < BracketHi
  /\ call.f = {13}

(***************************************************************************)
(* A constant loss.                                                        *)
(***************************************************************************)

\* The loss of a prayer is 0 at every angle of [min, max]: each member of
\* its subset has weight 0 or a prediction that is not finite at min, and
\* then at no larger angle.
Flat(field) ==
  \A i \in Subset(field) :
    \/ WeightAt(i) = 0
    \/ Predicted(observations[i], field, MinOf(field)) = NaN

\* The initial guess of a prayer.
GuessOf(field) == IF field = "fajr" THEN OptFajrAngle0 ELSE OptIshaAngle0

\* C25 as stated: when the loss of a fitted prayer is perfectly flat over
\* the whole interval, the angle returned for it is the initial guess.
C25_FlatLossReturnsGuess ==
  Succeeded =>
    \A field \in Fitted : Flat(field) => AngleOf(field) = GuessOf(field)

GeneratedBy(field, theta) ==
  {i \in Subset(field) :
     /\ Predicted(observations[i], field, theta) # NaN
     /\ observations[i][field] = Predicted(observations[i], field, theta)}

\* The subset of a prayer is a mix of observations generated at A and
\* observations generated at B, of equal weights, with A < B inside the
\* bounds.
MixOf(field, A, B) ==
  /\ A < B
  /\ MinOf(field) <= A
  /\ B <= MaxOf(field)
  /\ GeneratedBy(field, A) # {}
  /\ GeneratedBy(field, B) # {}
  /\ GeneratedBy(field, A) \cup GeneratedBy(field, B) = Subset(field)
  /\ \A i, j \in Subset(field) : WeightAt(i) = WeightAt(j)
  /\ \A i \in Subset(field) : WeightAt(i) > 0

\* C26: when the observations of a prayer are a mix of observations
\* generated at A and observations generated at B > A, with equal weights,
\* the angle returned for the prayer lies strictly between A and B.
\* (Stated for calls whose maxIter lets the search reach tol.)
C26_MixedAnglesGiveAngleBetween ==
  (Succeeded /\ OptMaxIter >= 50) =>
    \A field \in {"fajr", "isha"} : \A A, B \in Thetas :
      MixOf(field, A, B) => A < AngleOf(field) /\ AngleOf(field) < B

(***************************************************************************)
(* The Julian Day Number.  A caller takes the jdn of a date and then of    *)
(* the days after it, one by one, across the ends of months and years and  *)
(* across the end of February in leap and common years.                    *)
(***************************************************************************)

\* The days walked from each first date.
JdnSpan == 100

\* The first dates.
JdnStarts ==
  { <<1999, 12, 1>>, <<1900, 2, 1>>, <<2024, 2, 1>>, <<2100, 2, 1>>,
    <<2023, 2, 1>>, <<1600, 2, 1>>, <<-1, 12, 1>> }

\* The Gregorian leap rule of the Date object: every 4th year, but of the
\* century years only every 400th.
IsLeap(y) == y % 4 = 0 /\ (y % 100 # 0 \/ y % 400 = 0)

DaysIn(y, m) ==
  IF m = 2 THEN (IF IsLeap(y) THEN 29 ELSE 28)
  ELSE IF m \in {4, 6, 9, 11} THEN 30 ELSE 31

\* The calendar date of the day after a date.
Tomorrow(date) ==
  IF date[3] < DaysIn(date[1], date[2]) THEN <<date[1], date[2], date[3] + 1>>
  ELSE IF date[2] < 12 THEN <<date[1], date[2] + 1, 1>>
  ELSE <<date[1] + 1, 1, 1>>

\* date1 is an earlier calendar date than date2.
Earlier(date1, date2) ==
  \/ date1[1] < date2[1]
  \/ date1[1] = date2[1] /\ date1[2] < date2[2]
  \/ date1[1] = date2[1] /\ date1[2] = date2[2] /\ date1[3] < date2[3]

JdnInit ==
  /\ observations = <<>>
  /\ options = NoOptions
  /\ call = [op |-> "none"]
  /\ result = [op |-> "none"]

\* jdn of a first date.
JdnOfStart ==
  \E date \in JdnStarts :
    /\ call' = [op |-> "jdn", date |-> date, days |-> 0]
    /\ result' = jdn(date)
    /\ UNCHANGED <<observations, options>>

\* jdn of the day after the date of the last call.
JdnOfTomorrow ==
  /\ call.op = "jdn"
  /\ call.days < JdnSpan
  /\ call' = [op |-> "jdn", date |-> Tomorrow(call.date),
              days |-> call.days + 1]
  /\ result' = jdn(Tomorrow(call.date))
  /\ UNCHANGED <<observations, options>>

JdnNext == JdnOfStart \/ JdnOfTomorrow

JdnSpec == JdnInit /\ [][JdnNext]_vars

\* C27: every calendar date has one Julian Day Number, an integer: two
\* different dates never have the same one (an earlier date has a smaller
\* one), the day after a date has the number of the date plus 1, across the
\* ends of months and years and the leap days of the Gregorian 4/100/400
\* rule, and 2000-01-01 has 2451545.
C27_JdnCountsDays ==
  /\ [](call.op = "jdn" =>
          /\ result \in Int
          /\ result = jdn(call.date)
          /\ call.date = <<2000, 1, 1>> => result = 2451545
          /\ \A date \in JdnStarts :
               /\ Earlier(date, call.date) <=> jdn(date) < result
               /\ date = call.date <=> jdn(date) = result)
  /\ [][JdnOfTomorrow => result' = result + 1]_vars

\* The leap day of 2000 is reached from 1999-12-01, through 2000-01-01, and
\* is 59 days after it.
C27_Witness ==
  /\ call.op = "jdn"
  /\ call.date = <<2000, 2, 29>>
  /\ call.days = 90
  /\ result = 2451545 + 59

(***************************************************************************)
(* The initial guesses.                                                    *)
(***************************************************************************)

\* The options with other initial guesses.
OtherGuesses == [options EXCEPT !.fajrAngle0 = {1100}, !.ishaAngle0 = {2100}]

Inert(field) ==
  {i \in Subset(field) :
     \/ WeightAt(i) = 0
     \/ Predicted(observations[i], field, AngleLo) = NaN}

\* The observations without the times of the inert members.
WithoutInert ==
  [i \in 1..Len(observations) |->
     [observations[i] EXCEPT
        !.fajr = IF i \in Inert("fajr") THEN undefined ELSE @,
        !.isha = IF i \in Inert("isha") THEN undefined ELSE @]]

\* C30: an observation is in a subset when it has the time, whatever its
\* prediction and its weight.  With inert members in the subsets, the call
\* raises only when both subsets, inert members included, have fewer than 2
\* members; a subset of 2 or more is fitted by the search; the observation
\* count is half the number of times, inert ones included; and the inert
\* members add nothing to the loss and to the RMS.
C30_MembershipByTimeAlone ==
  (Calibrated /\ Inert("fajr") \cup Inert("isha") # {}) =>
    /\ result.threw <=>
         Cardinality(DawnSubset) < 2 /\ Cardinality(DuskSubset) < 2
    /\ ~result.threw =>
         /\ \A field \in Fitted :
              /\ AngleOf(field) = gsReturn(Searched(field))
              /\ \A angle \in Rivals(field) :
                   LossAt(field, angle)
                     = Loss(Filter(WithoutInert, field), field, angle)
         /\ result.observationCount * 2
              = (Cardinality(DawnSubset) + Cardinality(DuskSubset)) * 10
         /\ result.rmsMinutes
              = scoreAngles(WithoutInert, result.angles.fajrAngle,
                            result.angles.ishaAngle).rmsMinutes

\* Two dusk times, one of weight 0 and one never predicted, and fewer than
\* 2 dawn times: the call succeeds, the dusk angle is fitted and is not the
\* guess, and the RMS is 0.
C30_Witness ==
  /\ Succeeded
  /\ Cardinality(DuskSubset) = 2
  /\ Inert("isha") = DuskSubset
  /\ \E i \in DuskSubset : WeightAt(i) = 0
  /\ \E i \in DuskSubset : WeightAt(i) > 0
  /\ Cardinality(DawnSubset) < 2
  /\ result.angles.ishaAngle # OptIshaAngle0
  /\ result.observationCount >= 10
  /\ result.rmsMinutes = 0

====
